---- MODULE Spec2Model ----
(***************************************************************************)
(* Model of the SymPy client of the semantic math editor                   *)
(* (src/src/sympy-client.ts): forward translation of an editor tree into a *)
(* prepared SymPy call, the remote operations built from prepared calls,   *)
(* the plot helpers and the browser based HTTP transport.                  *)
(*                                                                         *)
(* Texts are sequences of one-character strings, so that printing and      *)
(* parsing are computed character by character.                            *)
(***************************************************************************)
EXTENDS Integers, Sequences, FiniteSets, TLC

(***************************************************************************)
(* Bounds of the model.                                                    *)
(***************************************************************************)
\* largest number of nodes of an arithmetic editor tree given to prepareCompute
MaxSize == 5
\* explicit plot interval bounds range over -MaxBound .. MaxBound
MaxBound == 3

(***************************************************************************)
(* Characters and text helpers.                                            *)
(***************************************************************************)
DigitChars == {"0", "1", "2", "3", "4", "5", "6", "7", "8", "9"}
LetterChars == {"a", "b", "c", "d", "e", "f", "i", "l", "n", "o", "p", "q",
                "r", "s", "t", "u", "v", "x", "y", "z", "_"}

RECURSIVE JoinComma(_)
JoinComma(texts) ==
  IF Len(texts) = 0 THEN <<>>
  ELSE IF Len(texts) = 1 THEN texts[1]
  ELSE texts[1] \o <<",">> \o JoinComma(Tail(texts))

Paren(text) == <<"(">> \o text \o <<")">>

(***************************************************************************)
(* Editor tree (MathNode).  Every node is a record [kind, value, args]:    *)
(* value is the text of a leaf, args the ordered children of a composite.  *)
(***************************************************************************)
MathNumber(text) == [kind |-> "Number", value |-> text, args |-> <<>>]
MathVariable(text) == [kind |-> "Variable", value |-> text, args |-> <<>>]
MathComposite(k, children) == [kind |-> k, value |-> <<>>, args |-> children]
MathUnaryMinus(n) == MathComposite("UnaryMinus", <<n>>)

ForbiddenKinds == {"Differential", "Set", "SystemOfEquations"}
UnaryKinds == {"UnaryMinus", "Sqrt"}
BinaryKinds == {"Plus", "Minus", "Multiply", "Divide", "Power", "Derivative"}

(***************************************************************************)
(* Token model (SympyToken): [type, text, args].  text is the atom text,   *)
(* the operator or the function name; args are the ordered children.       *)
(***************************************************************************)
Atom(text) == [type |-> "Atom", text |-> text, args |-> <<>>]
UnaryOp(op, operand) == [type |-> "UnaryOp", text |-> op, args |-> <<operand>>]
BinaryOp(op, left, right) == [type |-> "BinaryOp", text |-> op, args |-> <<left, right>>]
Call(name, arguments) == [type |-> "Call", text |-> name, args |-> arguments]
Tuple(elements) == [type |-> "Tuple", text |-> <<>>, args |-> elements]

(***************************************************************************)
(* Token printer (SympyStringify).                                         *)
(***************************************************************************)
Prec(tok) ==
  IF tok.type = "BinaryOp"
  THEN IF tok.text = <<"*", "*">> THEN 4
       ELSE IF tok.text \in {<<"*">>, <<"/">>} THEN 2
       ELSE 1
  ELSE IF tok.type = "UnaryOp" THEN 3
  ELSE 5

RightAssoc(op) == op = <<"*", "*">>

\* the text of tok, given the texts of its children
Render(tok, texts) ==
  LET Wrap(k, needed) == IF needed THEN Paren(texts[k]) ELSE texts[k]
      p == Prec(tok)
  IN  CASE tok.type = "Atom" -> tok.text
        [] tok.type = "UnaryOp" -> tok.text \o Wrap(1, Prec(tok.args[1]) < p)
        [] tok.type = "BinaryOp" ->
             Wrap(1, Prec(tok.args[1]) < p \/ (Prec(tok.args[1]) = p /\ RightAssoc(tok.text)))
             \o tok.text
             \o Wrap(2, Prec(tok.args[2]) < p \/ (Prec(tok.args[2]) = p /\ ~RightAssoc(tok.text)))
        [] tok.type = "Call" -> tok.text \o Paren(JoinComma(texts))
        [] OTHER -> Paren(JoinComma(texts))

RECURSIVE SympyStringify(_)
RECURSIVE StringifyAll(_)
StringifyAll(toks) ==
  IF Len(toks) = 0 THEN <<>>
  ELSE <<SympyStringify(Head(toks))>> \o StringifyAll(Tail(toks))

SympyStringify(tok) == Render(tok, StringifyAll(tok.args))

(***************************************************************************)
(* Token parser (parseSympyExpression): recursive descent over the         *)
(* characters.  A step returns [ok, tok, pos]; pos is the next unread      *)
(* position, or the offset of the violation when ok is FALSE.              *)
(***************************************************************************)
NoToken == Atom(<<>>)
Good(tok, pos) == [ok |-> TRUE, tok |-> tok, pos |-> pos]
Bad(pos) == [ok |-> FALSE, tok |-> NoToken, pos |-> pos]

At(s, i, c) == i <= Len(s) /\ s[i] = c

RECURSIVE ScanWhile(_, _, _)
\* first position at or after i whose character is not in chars
ScanWhile(s, i, chars) ==
  IF i <= Len(s) /\ s[i] \in chars THEN ScanWhile(s, i + 1, chars) ELSE i

\* end of the numeric literal starting at i: digits, optionally '.' digits
ScanNumber(s, i) ==
  LET j == ScanWhile(s, i, DigitChars)
  IN  IF At(s, j, ".") /\ j + 1 <= Len(s) /\ s[j + 1] \in DigitChars
      THEN ScanWhile(s, j + 1, DigitChars)
      ELSE j

RECURSIVE ParseExpr(_, _)
RECURSIVE ParseExprRest(_, _, _)
RECURSIVE ParseTerm(_, _)
RECURSIVE ParseTermRest(_, _, _)
RECURSIVE ParseUnary(_, _)
RECURSIVE ParsePower(_, _)
RECURSIVE ParsePrimary(_, _)
RECURSIVE ParseList(_, _, _)

\* expr (',' expr)* ; acc holds the elements read so far, e is the next one
ListStep(s, acc, e) ==
  IF ~e.ok THEN [ok |-> FALSE, toks |-> <<>>, pos |-> e.pos]
  ELSE IF At(s, e.pos, ",")
       THEN ParseList(s, e.pos + 1, Append(acc, e.tok))
       ELSE [ok |-> TRUE, toks |-> Append(acc, e.tok), pos |-> e.pos]

ParseList(s, i, acc) == ListStep(s, acc, ParseExpr(s, i))

\* the ')' after the list l: the arguments of the call name, or a
\* parenthesized expression (one element) or a tuple (two or more)
CloseList(s, isCall, name, l) ==
  IF ~l.ok THEN Bad(l.pos)
  ELSE IF ~At(s, l.pos, ")") THEN Bad(l.pos)
  ELSE IF isCall THEN Good(Call(name, l.toks), l.pos + 1)
  ELSE IF Len(l.toks) = 1 THEN Good(l.toks[1], l.pos + 1)
  ELSE Good(Tuple(l.toks), l.pos + 1)

ParsePrimary(s, i) ==
  IF i > Len(s) THEN Bad(i)
  ELSE IF s[i] \in DigitChars
  THEN Good(Atom(SubSeq(s, i, ScanNumber(s, i) - 1)), ScanNumber(s, i))
  ELSE LET isName == s[i] \in LetterChars
           j == IF isName THEN ScanWhile(s, i, LetterChars \cup DigitChars) ELSE i
           name == SubSeq(s, i, j - 1)
       IN  IF ~At(s, j, "(")
           THEN IF isName THEN Good(Atom(name), j) ELSE Bad(i)
           ELSE IF isName /\ At(s, j + 1, ")")
           THEN Good(Call(name, <<>>), j + 2)
           ELSE CloseList(s, isName, name, ParseList(s, j + 1, <<>>))

\* primary ('**' power | '^' power)? : exponentiation is right-associative
PowerStep(s, b, e) ==
  IF ~e.ok THEN e ELSE Good(BinaryOp(<<"*", "*">>, b.tok, e.tok), e.pos)

PowerOperator(s, b) ==
  IF ~b.ok THEN 0
  ELSE IF At(s, b.pos, "*") /\ At(s, b.pos + 1, "*") THEN 2
  ELSE IF At(s, b.pos, "^") THEN 1
  ELSE 0

PowerRest(s, b) ==
  IF PowerOperator(s, b) = 0 THEN b
  ELSE PowerStep(s, b, ParsePower(s, b.pos + PowerOperator(s, b)))

ParsePower(s, i) == PowerRest(s, ParsePrimary(s, i))

\* '-' unary | power
Negate(u) == IF ~u.ok THEN u ELSE Good(UnaryOp(<<"-">>, u.tok), u.pos)

ParseUnary(s, i) ==
  IF At(s, i, "-") THEN Negate(ParseUnary(s, i + 1)) ELSE ParsePower(s, i)

\* unary (('*' | '/') unary)* : left-associative
TermStep(s, left, op, r) ==
  IF ~r.ok THEN r ELSE ParseTermRest(s, BinaryOp(op, left, r.tok), r.pos)

ParseTermRest(s, left, i) ==
  IF (At(s, i, "*") /\ ~At(s, i + 1, "*")) \/ At(s, i, "/")
  THEN TermStep(s, left, <<s[i]>>, ParseUnary(s, i + 1))
  ELSE Good(left, i)

TermStart(s, u) == IF ~u.ok THEN u ELSE ParseTermRest(s, u.tok, u.pos)

ParseTerm(s, i) == TermStart(s, ParseUnary(s, i))

\* term (('+' | '-') term)* : left-associative
ExprStep(s, left, op, r) ==
  IF ~r.ok THEN r ELSE ParseExprRest(s, BinaryOp(op, left, r.tok), r.pos)

ParseExprRest(s, left, i) ==
  IF At(s, i, "+") \/ At(s, i, "-")
  THEN ExprStep(s, left, <<s[i]>>, ParseTerm(s, i + 1))
  ELSE Good(left, i)

ExprStart(s, t) == IF ~t.ok THEN t ELSE ParseExprRest(s, t.tok, t.pos)

ParseExpr(s, i) == ExprStart(s, ParseTerm(s, i))

\* the whole text must be one expression, else a Parse Error with the text
ParseResult(text, r) ==
  IF r.ok /\ r.pos = Len(text) + 1
  THEN [ok |-> TRUE, token |-> r.tok]
  ELSE [ok |-> FALSE, error |-> [kind |-> "ParseError", text |-> text, offset |-> r.pos]]

parseSympyExpression(text) == ParseResult(text, ParseExpr(text, 1))

(***************************************************************************)
(* Prepared call and error values.                                         *)
(***************************************************************************)
PreparedSympyCall(token) == [kind |-> "PreparedSympyCall", token |-> token]

\* PreparedSympyCall.stringify(): the printer text of the wrapped token
stringify(call) == SympyStringify(call.token)

SemanticErrorDescription(mathNode, message) ==
  [kind |-> "SemanticErrorDescription", node |-> mathNode, message |-> message]

InvalidNodeError(mathNode, message) ==
  [kind |-> "InvalidNodeError", error |-> SemanticErrorDescription(mathNode, message)]

\* outcome of a call: a returned value or a thrown error
Return(value) == [outcome |-> "return", value |-> value]
Throw(error) == [outcome |-> "throw", error |-> error]
None == [outcome |-> "none"]

(***************************************************************************)
(* Forward translator: the visitor of the compute operation.               *)
(***************************************************************************)
visitDifferential(mathNode) ==
  Throw(InvalidNodeError(mathNode, "compute operation does not support standalone differential"))

visitSet(mathNode) ==
  Throw(InvalidNodeError(mathNode, "compute operation does not support sets"))

visitSystemOfEquations(mathNode) ==
  Throw(InvalidNodeError(mathNode, "compute operation does not support system of equations"))

BinaryOperator(kind) ==
  CASE kind = "Plus" -> <<"+">>
    [] kind = "Minus" -> <<"-">>
    [] kind = "Multiply" -> <<"*">>
    [] kind = "Divide" -> <<"/">>
    [] OTHER -> <<"*", "*">>

RECURSIVE ComputeOperation(_)
RECURSIVE VisitChildren(_, _)

\* visits the children in order; the first one that throws ends the visit
ChildVisited(children, acc, r) ==
  IF r.outcome = "throw" THEN r
  ELSE VisitChildren(Tail(children), Append(acc, r.value))

VisitChildren(children, acc) ==
  IF Len(children) = 0 THEN Return(acc)
  ELSE ChildVisited(children, acc, ComputeOperation(Head(children)))

\* the token of mathNode, given the tokens c of its children
BaseToken(mathNode, c) ==
  CASE mathNode.kind \in {"Number", "Variable"} -> Atom(mathNode.value)
    [] mathNode.kind = "UnaryMinus" -> UnaryOp(<<"-">>, c[1])
    [] mathNode.kind = "Sqrt" -> Call(<<"s", "q", "r", "t">>, c)
    [] mathNode.kind = "Derivative" -> Call(<<"d", "i", "f", "f">>, c)
    [] OTHER -> BinaryOp(BinaryOperator(mathNode.kind), c[1], c[2])

BaseResult(mathNode, c) ==
  IF c.outcome = "throw" THEN c ELSE Return(BaseToken(mathNode, c.value))

\* the rules ComputeOperation inherits from BaseSymPyVisitor
BaseSymPyVisitor(mathNode) == BaseResult(mathNode, VisitChildren(mathNode.args, <<>>))

ComputeOperation(mathNode) ==
  CASE mathNode.kind = "Differential" -> visitDifferential(mathNode)
    [] mathNode.kind = "Set" -> visitSet(mathNode)
    [] mathNode.kind = "SystemOfEquations" -> visitSystemOfEquations(mathNode)
    [] OTHER -> BaseSymPyVisitor(mathNode)

\* acceptMathNode(node, ComputeOperation.instance).  runtimeFault is a fault
\* of the runtime (not an InvalidNodeError) raised on entry of an inherited
\* visit method; the three methods ComputeOperation overrides only throw.
acceptMathNode(mathNode, runtimeFault) ==
  IF runtimeFault /\ mathNode.kind \notin ForbiddenKinds
  THEN Throw([kind |-> "RuntimeError"])
  ELSE ComputeOperation(mathNode)

\* prepare with a catch block that throws the InvalidNodeError again
PrepareResultRethrows(r) ==
  IF r.outcome = "return" THEN Return(PreparedSympyCall(r.value)) ELSE Throw(r.error)

\* prepare with a catch block that returns e.error of whatever was thrown
PrepareResultUnchecked(r) ==
  IF r.outcome = "return" THEN Return(PreparedSympyCall(r.value))
  ELSE IF r.error.kind = "InvalidNodeError" THEN Return(r.error.error)
  ELSE Return([kind |-> "undefined"])

\* try { return new PreparedSympyCall(r) } catch (e) { ... } for the outcome r
\* of acceptMathNode
PrepareResult(r) ==
  IF r.outcome = "return" THEN Return(PreparedSympyCall(r.value))
  ELSE IF r.error.kind = "InvalidNodeError" THEN Return(r.error.error)
  ELSE Throw(r.error)

prepare(mathNode, runtimeFault) == PrepareResult(acceptMathNode(mathNode, runtimeFault))

prepareCompute(mathNode, runtimeFault) == prepare(mathNode, runtimeFault)

(***************************************************************************)
(* Reverse translator (fromSympy).                                         *)
(***************************************************************************)
FormatError(text) == [kind |-> "FormatError", text |-> text]

BinaryKind(op) ==
  CASE op = <<"+">> -> "Plus"
    [] op = <<"-">> -> "Minus"
    [] op = <<"*">> -> "Multiply"
    [] op = <<"/">> -> "Divide"
    [] OTHER -> "Power"

KnownCall(tok) ==
  \/ tok.text = <<"s", "q", "r", "t">> /\ Len(tok.args) = 1
  \/ tok.text = <<"d", "i", "f", "f">> /\ Len(tok.args) = 2

\* the editor node of tok, given the editor nodes c of its children
NodeOf(tok, c) ==
  CASE tok.type = "Atom" ->
         IF tok.text[1] \in DigitChars THEN MathNumber(tok.text) ELSE MathVariable(tok.text)
    [] tok.type = "UnaryOp" -> MathComposite("UnaryMinus", c)
    [] tok.type = "BinaryOp" -> MathComposite(BinaryKind(tok.text), c)
    [] tok.text = <<"s", "q", "r", "t">> -> MathComposite("Sqrt", c)
    [] OTHER -> MathComposite("Derivative", c)

RECURSIVE fromSympy(_)
RECURSIVE FromSympyAll(_, _)
ChildTranslated(toks, acc, r) ==
  IF r.outcome = "throw" THEN r
  ELSE FromSympyAll(Tail(toks), Append(acc, r.value))

FromSympyAll(toks, acc) ==
  IF Len(toks) = 0 THEN Return(acc)
  ELSE ChildTranslated(toks, acc, fromSympy(Head(toks)))

FromSympyResult(tok, c) ==
  IF c.outcome = "throw" THEN c ELSE Return(NodeOf(tok, c.value))

\* a tuple, an unknown function name and a known function with the wrong
\* number of arguments are Format Errors naming the token
fromSympy(tok) ==
  IF tok.type = "Tuple" THEN Throw(FormatError(SympyStringify(tok)))
  ELSE IF tok.type = "Call" /\ ~KnownCall(tok) THEN Throw(FormatError(tok.text))
  ELSE FromSympyResult(tok, FromSympyAll(tok.args, <<>>))

(***************************************************************************)
(* Response path shared by mirror, compute and simplify: parse the text    *)
(* and translate it back; a failure of either step is thrown.              *)
(***************************************************************************)
\* the response path returning the parsed token without translating it back
DecodedUntranslated(sympyParsedExpression) ==
  IF ~sympyParsedExpression.ok THEN Throw(sympyParsedExpression.error)
  ELSE Return(sympyParsedExpression.token)

Decoded(sympyParsedExpression) ==
  IF ~sympyParsedExpression.ok THEN Throw(sympyParsedExpression.error)
  ELSE fromSympy(sympyParsedExpression.token)

DecodeResponse(sympyResult) == Decoded(parseSympyExpression(sympyResult))

(***************************************************************************)
(* preparePlotInterval.  A numeric argument is [given, value].             *)
(***************************************************************************)
Omitted == [given |-> FALSE, value |-> 0]
Given(n) == [given |-> TRUE, value |-> n]

Abs(n) == IF n < 0 THEN -n ELSE n

DigitOf(d) ==
  CASE d = 0 -> "0" [] d = 1 -> "1" [] d = 2 -> "2" [] d = 3 -> "3" [] d = 4 -> "4"
    [] d = 5 -> "5" [] d = 6 -> "6" [] d = 7 -> "7" [] d = 8 -> "8" [] OTHER -> "9"

RECURSIVE NumberToText(_)
\* "" + num for a non-negative integer
NumberToText(n) ==
  IF n < 10 THEN <<DigitOf(n)>> ELSE NumberToText(n \div 10) \o <<DigitOf(n % 10)>>

\* JavaScript !x for an optional number: undefined and 0 are both falsy
Falsy(arg) == ~arg.given \/ arg.value = 0

toMathNode(num) ==
  IF num < 0
  THEN prepareCompute(MathUnaryMinus(MathNumber(NumberToText(Abs(num)))), FALSE).value
  ELSE prepareCompute(MathNumber(NumberToText(num)), FALSE).value

PlotInterval(v, start, end) == [variable |-> v, start |-> start, end |-> end]

preparePlotInterval(v, start, end) ==
  LET start1 == IF Falsy(start) THEN -10 ELSE start.value
      end1 == IF Falsy(end) THEN 10 ELSE end.value
  IN  PlotInterval(prepareCompute(v, FALSE).value, toMathNode(start1), toMathNode(end1))

\* PlotInterval.asSympyTuple(): "(varText, startText, endText)"
asSympyTuple(interval) ==
  Paren(JoinComma(<<stringify(interval.variable), stringify(interval.start),
                    stringify(interval.end)>>))

(***************************************************************************)
(* Requests built by SympyRESTClient.                                      *)
(***************************************************************************)
\* callCustom(name, args): the payload is [name, args]
callCustom(name, arguments) == [rpc |-> "callCustom", payload |-> <<name, arguments>>]

\* callMethod(object, method, args)
callMethod(object, method, arguments) ==
  [rpc |-> "callMethod", object |-> object, method |-> method, args |-> arguments]

\* callFunction(name, args, kwargs); kwargs is a set of <<key, value>> pairs
callFunction(name, arguments, kwargs) ==
  [rpc |-> "callFunction", name |-> name, args |-> arguments, kwargs |-> kwargs]

NoKwargs == {}

(***************************************************************************)
(* latex: unquote the response, then replace every "\\" by "\".            *)
(***************************************************************************)
Quote == "\""
Backslash == "\\"

unquote(text) ==
  IF Len(text) >= 2 /\ text[1] = Quote /\ text[Len(text)] = Quote
  THEN SubSeq(text, 2, Len(text) - 1)
  ELSE text

RECURSIVE replaceAll(_, _, _)
\* every occurrence of the characters search, left to right, not overlapping
replaceAll(target, search, replacement) ==
  IF Len(target) < Len(search) THEN target
  ELSE IF SubSeq(target, 1, Len(search)) = search
       THEN replacement \o replaceAll(SubSeq(target, Len(search) + 1, Len(target)), search, replacement)
       ELSE <<target[1]>> \o replaceAll(Tail(target), search, replacement)

latexResult(response) ==
  replaceAll(unquote(response), <<Backslash, Backslash>>, <<Backslash>>)

(***************************************************************************)
(* Inputs of the call specification.                                       *)
(***************************************************************************)
Calls == {"c1", "c2"}
NoCall == "none"

Operations == {"mirror", "compute", "simplify", "latex", "checkEquivalence"}
DecodingOperations == {"mirror", "compute", "simplify"}
LoggingOperations == {"mirror", "simplify"}

Two == prepareCompute(MathNumber(<<"2">>), FALSE).value
Five == prepareCompute(MathNumber(<<"5">>), FALSE).value
Product ==
  prepareCompute(MathComposite("Multiply",
     <<MathComposite("Plus", <<MathVariable(<<"x">>), MathNumber(<<"2">>)>>),
       MathVariable(<<"x">>)>>), FALSE).value

PreparedCalls == {Two, Five, Product}

\* what the server may answer: a well formed expression, a dangling
\* operator, an unknown function, a known function of the wrong arity, and
\* a quoted text with doubled backslashes
ServerTexts ==
  { <<"x", "*", "*", "2">>,
    <<"2", "+">>,
    <<"f", "(", "x", ")">>,
    <<"s", "q", "r", "t", "(", "x", ",", "x", ")">>,
    <<Quote, Backslash, Backslash, "x", Quote>> }

SympyError == [kind |-> "SympyError"]

(***************************************************************************)
(* Plots.  An optional argument is [given, value].  plotSrc is the URL of  *)
(* the image, checkPlotValidity the request that asks the server whether   *)
(* the same plot is valid; both are kept as the record of their arguments. *)
(***************************************************************************)
NotGiven == [given |-> FALSE]
Some(v) == [given |-> TRUE, value |-> v]

plotSrc(name, arguments, svg, params) ==
  [endpoint |-> name, args |-> arguments, svg |-> svg, params |-> params]

checkPlotValidity(name, arguments, svg, params) ==
  [endpoint |-> name, args |-> arguments, svg |-> svg, params |-> params]

MapStringify(sympyExpression) ==
  [i \in 1..Len(sympyExpression) |-> stringify(sympyExpression[i])]

plot2dSrc(sympyExpression, svg, interval, params) ==
  plotSrc("plot",
          MapStringify(sympyExpression)
            \o (IF interval.given THEN <<asSympyTuple(interval.value)>> ELSE <<>>),
          svg, params)

plot2dParametricSrc(expressionPairs, svg, interval, params) ==
  plotSrc("plot_parametric",
          [i \in 1..Len(expressionPairs) |->
             Paren(JoinComma(<<stringify(expressionPairs[i].x), stringify(expressionPairs[i].y)>>))]
            \o (IF interval.given THEN <<asSympyTuple(interval.value)>> ELSE <<>>),
          svg, params)

plot3dSrc(sympyExpression, svg, intervals, params) ==
  plotSrc("plot3d",
          MapStringify(sympyExpression)
            \o (IF intervals.given
                THEN <<asSympyTuple(intervals.value.i1), asSympyTuple(intervals.value.i2)>>
                ELSE <<>>),
          svg, params)

plot3dParametricLineSrc(expressionPairs, svg, params) ==
  plotSrc("plot3d_parametric_line",
          [i \in 1..Len(expressionPairs) |->
             Paren(JoinComma(<<stringify(expressionPairs[i].x), stringify(expressionPairs[i].y),
                               stringify(expressionPairs[i].z),
                               asSympyTuple(expressionPairs[i].interval)>>))],
          svg, params)

plot3dParametricSurfaceSrc(expressionPairs, svg, params) ==
  plotSrc("plot3d_parametric_surface",
          [i \in 1..Len(expressionPairs) |->
             Paren(JoinComma(<<stringify(expressionPairs[i].x), stringify(expressionPairs[i].y),
                               stringify(expressionPairs[i].z),
                               asSympyTuple(expressionPairs[i].r_u),
                               asSympyTuple(expressionPairs[i].r_v)>>))],
          svg, params)

\* the img.onerror handlers installed when onError is given: each builds
\* the arguments again and asks the server for the validity of the plot
plot2dOnError(sympyExpressions, svg, interval, params) ==
  checkPlotValidity("plot",
          MapStringify(sympyExpressions)
            \o (IF interval.given THEN <<asSympyTuple(interval.value)>> ELSE <<>>),
          svg, params)

plot3dOnError(sympyExpressions, svg, intervals, params) ==
  checkPlotValidity("plot3d",
          MapStringify(sympyExpressions)
            \o (IF intervals.given
                THEN <<asSympyTuple(intervals.value.i1), asSympyTuple(intervals.value.i2)>>
                ELSE <<>>),
          svg, params)

\* the handler of plot2d_parametric asking for the validity of a plain plot
plot2dParametricOnErrorAsPlot(expressionPairs, svg, interval, params) ==
  checkPlotValidity("plot",
          [i \in 1..Len(expressionPairs) |->
             Paren(JoinComma(<<stringify(expressionPairs[i].x), stringify(expressionPairs[i].y)>>))]
            \o (IF interval.given THEN <<asSympyTuple(interval.value)>> ELSE <<>>),
          svg, params)

plot2dParametricOnError(expressionPairs, svg, interval, params) ==
  checkPlotValidity("plot_parametric",
          [i \in 1..Len(expressionPairs) |->
             Paren(JoinComma(<<stringify(expressionPairs[i].x), stringify(expressionPairs[i].y)>>))]
            \o (IF interval.given THEN <<asSympyTuple(interval.value)>> ELSE <<>>),
          svg, params)

plot3dParametricLineOnError(expressionPairs, svg, params) ==
  checkPlotValidity("plot3d_parametric_line",
          [i \in 1..Len(expressionPairs) |->
             Paren(JoinComma(<<stringify(expressionPairs[i].x), stringify(expressionPairs[i].y),
                               stringify(expressionPairs[i].z),
                               asSympyTuple(expressionPairs[i].interval)>>))],
          svg, params)

plot3dParametricSurfaceOnError(expressionPairs, svg, params) ==
  checkPlotValidity("plot3d_parametric_surface",
          [i \in 1..Len(expressionPairs) |->
             Paren(JoinComma(<<stringify(expressionPairs[i].x), stringify(expressionPairs[i].y),
                               stringify(expressionPairs[i].z),
                               asSympyTuple(expressionPairs[i].r_u),
                               asSympyTuple(expressionPairs[i].r_v)>>))],
          svg, params)

PlotFunctions ==
  {"plot2d", "plot3d", "plot2d_parametric", "plot3d_parametric_line",
   "plot3d_parametric_surface"}

\* img.src of the plot function fn for the expressions, intervals and params
ImageSrc(fn, exprs, pairs, svg, interval, intervals, params) ==
  CASE fn = "plot2d" -> plot2dSrc(exprs, svg, interval, params)
    [] fn = "plot3d" -> plot3dSrc(exprs, svg, intervals, params)
    [] fn = "plot2d_parametric" -> plot2dParametricSrc(pairs, svg, interval, params)
    [] fn = "plot3d_parametric_line" -> plot3dParametricLineSrc(pairs, svg, params)
    [] OTHER -> plot3dParametricSurfaceSrc(pairs, svg, params)

\* the validity check the img.onerror handler of fn issues
OnErrorCheck(fn, exprs, pairs, svg, interval, intervals, params) ==
  CASE fn = "plot2d" -> plot2dOnError(exprs, svg, interval, params)
    [] fn = "plot3d" -> plot3dOnError(exprs, svg, intervals, params)
    [] fn = "plot2d_parametric" -> plot2dParametricOnError(pairs, svg, interval, params)
    [] fn = "plot3d_parametric_line" -> plot3dParametricLineOnError(pairs, svg, params)
    [] OTHER -> plot3dParametricSurfaceOnError(pairs, svg, params)

(***************************************************************************)
(* BrowserBasedHttpClient: the status range the onload handler accepts.    *)
(***************************************************************************)
StatusAcceptedFrom == 200
StatusRejectedFrom == 400

StatusAccepted(status) == status >= StatusAcceptedFrom /\ status < StatusRejectedFrom

(***************************************************************************)
(* Inputs of the translation specification.                                *)
(***************************************************************************)
Leaves == {MathNumber(<<"1", "0">>), MathNumber(<<"2", ".", "5">>), MathVariable(<<"x">>)}

ArithOfSize[n \in 1..MaxSize] ==
  IF n = 1 THEN Leaves
  ELSE {MathComposite(k, <<a>>) : k \in UnaryKinds, a \in ArithOfSize[n - 1]}
       \cup UNION {{MathComposite(k, <<a, b>>) :
                       k \in BinaryKinds, a \in ArithOfSize[i], b \in ArithOfSize[n - 1 - i]} :
                   i \in 1..(n - 2)}

ArithNodes == UNION {ArithOfSize[n] : n \in 1..MaxSize}

SmallNodes == ArithOfSize[1] \cup ArithOfSize[2]

ForbiddenNodes ==
  {MathComposite(k, <<a>>) : k \in ForbiddenKinds, a \in SmallNodes}
  \cup {MathComposite(k, <<a, b>>) : k \in {"Set", "SystemOfEquations"}, a \in Leaves, b \in Leaves}

\* allowed kinds with a forbidden node below them
NestedForbiddenNodes ==
  {MathComposite(k, <<f>>) : k \in UnaryKinds, f \in ForbiddenNodes}
  \cup {MathComposite("Plus", <<a, f>>) : a \in Leaves, f \in ForbiddenNodes}
  \cup {MathComposite("Multiply", <<f, a>>) : a \in Leaves, f \in ForbiddenNodes}

Nodes == ArithNodes \cup ForbiddenNodes \cup NestedForbiddenNodes

IntervalBounds == {Omitted} \cup {Given(n) : n \in (-MaxBound)..MaxBound}

(***************************************************************************)
(* Translation specification: one prepareCompute, optionally followed by a *)
(* mirror whose server echoes the text, or one preparePlotInterval.        *)
(***************************************************************************)
VARIABLES tphase, node, fault, prepared, mirrored, ivStart, ivEnd, interval

varsT == <<tphase, node, fault, prepared, mirrored, ivStart, ivEnd, interval>>

\* calls: the state of each remote call; requests: what was handed to the
\* transport, in order; running: the call whose synchronous code is running
VARIABLES calls, requests, running

varsC == <<calls, requests, running>>

\* http: one request of BrowserBasedHttpClient; plot: one plot image
VARIABLES http, plot

varsH == <<http, plot>>

vars == <<varsT, varsC, varsH>>

NoInterval == [variable |-> None, start |-> None, end |-> None]

IdleT ==
  /\ tphase = "idle"
  /\ node = MathNumber(<<"0">>)
  /\ fault = FALSE
  /\ prepared = None
  /\ mirrored = None
  /\ ivStart = Omitted
  /\ ivEnd = Omitted
  /\ interval = NoInterval

\* a call that has not started
IdleCall ==
  [op |-> "none", input |-> <<>>, log |-> FALSE, pc |-> "idle", text |-> <<>>,
   response |-> <<>>, token |-> NoToken, result |-> None, events |-> <<>>,
   console |-> <<>>]

IdleC ==
  /\ calls = [c \in Calls |-> IdleCall]
  /\ requests = <<>>
  /\ running = NoCall

IdleRequest ==
  [phase |-> "idle", method |-> "GET", hasCallback |-> FALSE, hasErrorCallback |-> FALSE,
   contentType |-> "", event |-> "none", status |-> 0, json |-> FALSE,
   successCalls |-> 0, failureCalls |-> 0, failureArg |-> "", uncaught |-> FALSE]

IdlePlot ==
  [phase |-> "idle", function |-> "none", hasOnError |-> FALSE, src |-> None,
   check |-> None, delivered |-> <<>>]

IdleH ==
  /\ http = IdleRequest
  /\ plot = IdlePlot

InitT == IdleT /\ IdleC /\ IdleH

PrepareCompute ==
  /\ UNCHANGED <<varsC, varsH>>
  /\ tphase = "idle"
  /\ \E n \in Nodes, f \in BOOLEAN :
       /\ node' = n
       /\ fault' = f
       /\ prepared' = prepareCompute(n, f)
  /\ tphase' = "prepared"
  /\ UNCHANGED <<mirrored, ivStart, ivEnd, interval>>

\* mirror(prepared) with a server that returns the text it was sent
MirrorEcho ==
  /\ UNCHANGED <<varsC, varsH>>
  /\ tphase = "prepared"
  /\ prepared.outcome = "return"
  /\ prepared.value.kind = "PreparedSympyCall"
  /\ mirrored' = DecodeResponse(SympyStringify(prepared.value.token))
  /\ tphase' = "mirrored"
  /\ UNCHANGED <<node, fault, prepared, ivStart, ivEnd, interval>>

PreparePlotInterval ==
  /\ UNCHANGED <<varsC, varsH>>
  /\ tphase = "idle"
  /\ \E s \in IntervalBounds, e \in IntervalBounds :
       /\ ivStart' = s
       /\ ivEnd' = e
       /\ interval' = preparePlotInterval(MathVariable(<<"x">>), s, e)
  /\ tphase' = "interval"
  /\ UNCHANGED <<node, fault, prepared, mirrored>>

NextT == PrepareCompute \/ MirrorEcho \/ PreparePlotInterval

SpecT == InitT /\ [][NextT]_vars

(***************************************************************************)
(* Properties of the translation specification.                            *)
(***************************************************************************)
RECURSIVE ForbiddenBelow(_)
\* the nodes of forbidden kind in the tree n (n included)
ForbiddenBelow(n) ==
  (IF n.kind \in ForbiddenKinds THEN {n} ELSE {})
  \cup UNION {ForbiddenBelow(n.args[i]) : i \in 1..Len(n.args)}

IsPreparedCall(v) == v.kind = "PreparedSympyCall"
IsTranslationError(v) == v.kind = "SemanticErrorDescription"

\* C1 (operation restriction): prepareCompute of a Differential, a Set or a
\* SystemOfEquations returns a Translation Error value naming exactly that
\* node; it neither throws nor returns a prepared call.
ComputeRestriction ==
  (tphase = "prepared" /\ node.kind \in ForbiddenKinds) =>
     /\ prepared.outcome = "return"
     /\ IsTranslationError(prepared.value)
     /\ prepared.value.node = node

ComputeRestrictionWitness ==
  /\ tphase = "prepared"
  /\ node = MathComposite("Set", <<MathVariable(<<"x">>), MathNumber(<<"1", "0">>)>>)
  /\ fault
  /\ prepared = Return(SemanticErrorDescription(node, "compute operation does not support sets"))

ExpectedBound(n) ==
  IF n < 0
  THEN PreparedSympyCall(UnaryOp(<<"-">>, Atom(NumberToText(-n))))
  ELSE PreparedSympyCall(Atom(NumberToText(n)))

\* C10: an explicitly passed integer bound is kept as it is (negative n as
\* -(|n|)), the defaults -10 and 10 replace only an omitted bound, and the
\* three parts of the interval are prepared calls.
ExplicitBoundsKept ==
  tphase = "interval" =>
     /\ interval.start = ExpectedBound(IF ivStart.given THEN ivStart.value ELSE -10)
     /\ interval.end = ExpectedBound(IF ivEnd.given THEN ivEnd.value ELSE 10)
     /\ IsPreparedCall(interval.variable)
     /\ IsPreparedCall(interval.start)
     /\ IsPreparedCall(interval.end)

(***************************************************************************)
(* Call specification: the remote operations of SympyClient.  The code of  *)
(* one call runs to completion between its suspension points; running      *)
(* names the call whose synchronous code is being executed.                *)
(***************************************************************************)
Event(c, e) == Append(calls[c].events, e)

\* first statement of every operation: the printer text of the arguments;
\* mirror logs the text when log is set
Stringify(c) ==
  /\ running = NoCall
  /\ calls[c].pc = "idle"
  /\ \E op \in Operations, p \in PreparedCalls, q \in PreparedCalls, log \in BOOLEAN :
       /\ (log => op \in LoggingOperations)
       /\ (op # "checkEquivalence" => q = p)
       /\ LET input == IF op = "checkEquivalence" THEN <<p, q>> ELSE <<p>>
              text == IF op \in {"simplify", "checkEquivalence"}
                      THEN [i \in 1..Len(input) |-> stringify(input[i])]
                      ELSE <<SympyStringify(p.token)>>
          IN  calls' = [calls EXCEPT ![c] =
                 [@ EXCEPT !.op = op, !.input = input, !.log = log, !.text = text,
                           !.pc = "printed", !.events = Event(c, "print"),
                           !.console = IF op = "mirror" /\ log
                                       THEN <<"RAW EXPRESSION TO SEND TO SYMPY">>
                                       ELSE <<>>]]
  /\ running' = c
  /\ UNCHANGED <<requests, varsT, varsH>>

\* checkEquivalence with its two texts in the wrong order
RequestOfSwapped(op, text) ==
  CASE op = "mirror" -> callCustom("mirror", <<text[1]>>)
    [] op = "checkEquivalence" -> callCustom("equiv", <<text[2], text[1]>>)
    [] op = "compute" -> callMethod(text[1], "doit", <<>>)
    [] op = "simplify" -> callFunction("simplify", <<text[1]>>, {<<"doit", FALSE>>})
    [] OTHER -> callFunction("latex", <<text[1]>>, NoKwargs)

\* simplify without its keyword options
RequestOfBareSimplify(op, text) ==
  CASE op = "mirror" -> callCustom("mirror", <<text[1]>>)
    [] op = "checkEquivalence" -> callCustom("equiv", text)
    [] op = "compute" -> callMethod(text[1], "doit", <<>>)
    [] op = "simplify" -> callFunction("simplify", <<text[1]>>, NoKwargs)
    [] OTHER -> callFunction("latex", <<text[1]>>, NoKwargs)

\* the request each operation hands to the REST client
RequestOf(op, text) ==
  CASE op = "mirror" -> callCustom("mirror", <<text[1]>>)
    [] op = "checkEquivalence" -> callCustom("equiv", text)
    [] op = "compute" -> callMethod(text[1], "doit", <<>>)
    [] op = "simplify" -> callFunction("simplify", <<text[1]>>, {<<"doit", FALSE>>})
    [] OTHER -> callFunction("latex", <<text[1]>>, NoKwargs)

\* the call hands its request to the transport and suspends
Send(c) ==
  /\ running = c
  /\ calls[c].pc = "printed"
  /\ requests' = Append(requests, [call |-> c, request |-> RequestOf(calls[c].op, calls[c].text)])
  /\ calls' = [calls EXCEPT ![c] = [@ EXCEPT !.pc = "sent", !.events = Event(c, "send")]]
  /\ running' = NoCall
  /\ UNCHANGED <<varsT, varsH>>

\* the transport delivers the whole response text; checkEquivalence returns
\* the promise of the REST client, so the response is its result
Resolve(c) ==
  /\ running = NoCall
  /\ calls[c].pc = "sent"
  /\ \E text \in ServerTexts \cup {calls[c].text[1]} :
       calls' = [calls EXCEPT ![c] =
          IF @.op = "checkEquivalence"
          THEN [@ EXCEPT !.response = text, !.pc = "done", !.result = Return(text),
                         !.events = Event(c, "receive")]
          ELSE [@ EXCEPT !.response = text, !.pc = "received",
                         !.events = Event(c, "receive")]]
  /\ UNCHANGED <<requests, running, varsT, varsH>>

\* the transport fails: the await throws outside of any try block
Reject(c) ==
  /\ running = NoCall
  /\ calls[c].pc = "sent"
  /\ calls' = [calls EXCEPT ![c] =
        [@ EXCEPT !.pc = "done", !.result = Throw(SympyError), !.events = Event(c, "fail")]]
  /\ UNCHANGED <<requests, running, varsT, varsH>>

\* the parser started on a response that was not awaited
ParseUnawaited(c) ==
  /\ running = NoCall
  /\ calls[c].pc = "sent"
  /\ calls[c].op \in DecodingOperations
  /\ LET sympyParsedExpression == parseSympyExpression(calls[c].response)
     IN  IF sympyParsedExpression.ok
         THEN /\ calls' = [calls EXCEPT ![c] =
                    [@ EXCEPT !.token = sympyParsedExpression.token, !.pc = "parsed",
                              !.events = Event(c, "parse")]]
              /\ running' = c
         ELSE /\ calls' = [calls EXCEPT ![c] =
                    [@ EXCEPT !.pc = "done", !.result = Throw(sympyParsedExpression.error),
                              !.events = Event(c, "parse")]]
              /\ running' = NoCall
  /\ UNCHANGED <<requests, varsT, varsH>>

\* mirror, compute, simplify: parse the response
Parse(c) ==
  /\ running = NoCall
  /\ calls[c].pc = "received"
  /\ calls[c].op \in DecodingOperations
  /\ LET call == calls[c]
         logged == IF call.log THEN Append(call.console, "RAW RESULT FROM SYMPY") ELSE call.console
         sympyParsedExpression == parseSympyExpression(call.response)
     IN  IF sympyParsedExpression.ok
         THEN /\ calls' = [calls EXCEPT ![c] =
                    [@ EXCEPT !.token = sympyParsedExpression.token, !.pc = "parsed",
                              !.events = Event(c, "parse"),
                              !.console = IF call.log
                                          THEN Append(logged, "PARSED RESULT FROM SYMPY")
                                          ELSE logged]]
              /\ running' = c
         ELSE /\ calls' = [calls EXCEPT ![c] =
                    [@ EXCEPT !.pc = "done", !.result = Throw(sympyParsedExpression.error),
                              !.events = Event(c, "parse"),
                              !.console = IF call.op \in LoggingOperations
                                          THEN Append(logged, "RAW RESULT FROM SYMPY")
                                          ELSE logged]]
              /\ running' = NoCall
  /\ UNCHANGED <<requests, varsT, varsH>>

\* a catch block that logs the failure of fromSympy and does not throw it again
ReverseSwallows(c) ==
  /\ running = c
  /\ calls[c].pc = "parsed"
  /\ LET call == calls[c]
         r == fromSympy(call.token)
     IN  calls' = [calls EXCEPT ![c] =
            [@ EXCEPT !.pc = "done",
                      !.result = IF r.outcome = "throw"
                                 THEN Return(MathComposite("undefined", <<>>))
                                 ELSE r,
                      !.events = Event(c, "reverse")]]
  /\ running' = NoCall
  /\ UNCHANGED <<requests, varsT, varsH>>

\* mirror, compute, simplify: translate the parsed token back
Reverse(c) ==
  /\ running = c
  /\ calls[c].pc = "parsed"
  /\ LET call == calls[c]
         r == fromSympy(call.token)
     IN  calls' = [calls EXCEPT ![c] =
            [@ EXCEPT !.pc = "done", !.result = r, !.events = Event(c, "reverse"),
                      !.console = IF r.outcome = "throw" /\ call.op \in LoggingOperations
                                  THEN Append(call.console, "RAW RESULT FROM SYMPY")
                                  ELSE call.console]]
  /\ running' = NoCall
  /\ UNCHANGED <<requests, varsT, varsH>>

\* latex: no parser; the response is unquoted
Unquote(c) ==
  /\ running = NoCall
  /\ calls[c].pc = "received"
  /\ calls[c].op = "latex"
  /\ calls' = [calls EXCEPT ![c] =
        [@ EXCEPT !.pc = "done", !.result = Return(latexResult(calls[c].response)),
                  !.events = Event(c, "unquote")]]
  /\ UNCHANGED <<requests, running, varsT, varsH>>

NextC ==
  \E c \in Calls :
    Stringify(c) \/ Send(c) \/ Resolve(c) \/ Reject(c) \/ Parse(c) \/ Reverse(c) \/ Unquote(c)

InitC == IdleT /\ IdleC /\ IdleH

SpecC == InitC /\ [][NextC]_vars

(***************************************************************************)
(* Properties of the call specification.                                   *)
(***************************************************************************)
RequestsBy(c) == SelectSeq(requests, LAMBDA r : r.call = c)

Started(c) == calls[c].pc \notin {"idle", "printed"}

\* C4: checkEquivalence issues exactly one request, whose payload is
\* ["equiv", [text(e1), text(e2)]] in argument order; for the prepared
\* numbers 2 and 5 it is ["equiv", ["2", "5"]].
EquivPayload ==
  \A c \in Calls :
    (calls[c].op = "checkEquivalence" /\ Started(c)) =>
       /\ Len(RequestsBy(c)) = 1
       /\ RequestsBy(c)[1].request =
            [rpc |-> "callCustom",
             payload |-> <<"equiv", <<SympyStringify(calls[c].input[1].token),
                                      SympyStringify(calls[c].input[2].token)>> >>]
       /\ (calls[c].input = <<Two, Five>> =>
             RequestsBy(c)[1].request.payload = <<"equiv", << <<"2">>, <<"5">> >> >>)

EquivPayloadWitness ==
  \E c \in Calls :
    /\ calls[c].op = "checkEquivalence"
    /\ calls[c].pc = "done"
    /\ calls[c].input = <<Two, Five>>
    /\ RequestsBy(c) = << [call |-> c,
                           request |-> [rpc |-> "callCustom",
                                        payload |-> <<"equiv", << <<"2">>, <<"5">> >> >>]] >>

\* C5: compute sends the method call (text, "doit", []), simplify the
\* function call simplify([text], {doit: false}), latex the function call
\* latex([text]) without keyword options; text is the printer text of the
\* prepared call in all three.
MethodAndFunctionCalls ==
  \A c \in Calls :
    (calls[c].op \in {"compute", "simplify", "latex"} /\ Started(c)) =>
       LET text == SympyStringify(calls[c].input[1].token)
           sent == RequestsBy(c)
       IN  /\ Len(sent) = 1
           /\ calls[c].op = "compute" =>
                sent[1].request = [rpc |-> "callMethod", object |-> text,
                                   method |-> "doit", args |-> <<>>]
           /\ calls[c].op = "simplify" =>
                sent[1].request = [rpc |-> "callFunction", name |-> "simplify",
                                   args |-> <<text>>, kwargs |-> {<<"doit", FALSE>>}]
           /\ calls[c].op = "latex" =>
                sent[1].request = [rpc |-> "callFunction", name |-> "latex",
                                   args |-> <<text>>, kwargs |-> {}]

MethodAndFunctionCallsWitness ==
  /\ calls["c1"].op = "simplify"
  /\ calls["c2"].op = "compute"
  /\ calls["c1"].input = <<Product>>
  /\ calls["c2"].input = <<Product>>
  /\ Len(requests) = 2
  /\ requests[1].request.args = << <<"(", "x", "+", "2", ")", "*", "x">> >>
  /\ requests[2].request.object = <<"(", "x", "+", "2", ")", "*", "x">>

TransportFailed(c) == calls[c].events = <<"print", "send", "fail">>

\* C7: in mirror, compute and simplify a failure of the transport, of the
\* parser or of the reverse translator ends the call with that error, and
\* an editor tree is returned only when all three succeeded; nothing is
\* returned before the call is done.
FailuresPropagate ==
  \A c \in Calls :
    calls[c].op \in DecodingOperations =>
       LET call == calls[c]
           parsed == parseSympyExpression(call.response)
       IN  IF call.pc # "done" THEN call.result = None
           ELSE IF TransportFailed(c) THEN call.result = Throw(SympyError)
           ELSE IF ~parsed.ok
                THEN call.result =
                       Throw([kind |-> "ParseError", text |-> call.response,
                              offset |-> parsed.error.offset])
           ELSE /\ call.result = fromSympy(parsed.token)
                /\ call.result.outcome = "throw" => call.result.error.kind = "FormatError"
                /\ call.result.outcome = "return" => call.result.value.kind # "undefined"

FailuresPropagateWitness ==
  /\ calls["c1"].op = "simplify"
  /\ calls["c1"].log
  /\ calls["c1"].pc = "done"
  /\ calls["c1"].result = Throw(FormatError(<<"s", "q", "r", "t">>))
  /\ calls["c2"].op = "mirror"
  /\ calls["c2"].pc = "done"
  /\ calls["c2"].result.outcome = "throw"
  /\ calls["c2"].result.error.kind = "ParseError"

IsPrefix(a, b) == Len(a) <= Len(b) /\ a = SubSeq(b, 1, Len(a))

ExpectedEvents(op) ==
  IF op \in DecodingOperations THEN <<"print", "send", "receive", "parse", "reverse">>
  ELSE IF op = "latex" THEN <<"print", "send", "receive", "unquote">>
  ELSE <<"print", "send", "receive">>

\* the expression text a request carries
SentText(request) ==
  CASE request.rpc = "callCustom" -> request.payload[2][1]
    [] request.rpc = "callMethod" -> request.object
    [] OTHER -> request.args[1]

\* C9: within one call of mirror, compute, simplify or latex the events
\* occur in the order print, send, receive, parse, reverse-translate, also
\* when calls interleave; the text sent is the whole printer text and the
\* token parsed is the parse of the whole response.
CallOrdering ==
  \A c \in Calls :
    calls[c].op \in DecodingOperations \cup {"latex"} =>
       /\ \/ IsPrefix(calls[c].events, ExpectedEvents(calls[c].op))
          \/ TransportFailed(c)
       /\ Started(c) =>
            /\ calls[c].text = <<SympyStringify(calls[c].input[1].token)>>
            /\ SentText(RequestsBy(c)[1].request) = SympyStringify(calls[c].input[1].token)
       /\ calls[c].pc = "parsed" =>
            calls[c].token = parseSympyExpression(calls[c].response).token

CallOrderingWitness ==
  /\ calls["c1"].events = <<"print", "send", "receive", "parse", "reverse">>
  /\ calls["c2"].events = <<"print", "send", "receive">>
  /\ calls["c2"].op = "latex"
  /\ requests[1].call = "c2"
  /\ requests[2].call = "c1"

(***************************************************************************)
(* Transport and plot specification: one request of the built-in HTTP      *)
(* client and one plot image.                                              *)
(***************************************************************************)
Statuses == {199, 200, 204, 304, 399, 400, 404, 500}

\* requestAsync up to request.send(): the handlers are installed, the
\* content type is set for POST
RequestAsync ==
  /\ http.phase = "idle"
  /\ \E method \in {"GET", "POST"}, cb \in BOOLEAN, ecb \in BOOLEAN :
       http' = [http EXCEPT !.phase = "sent", !.method = method, !.hasCallback = cb,
                            !.hasErrorCallback = ecb,
                            !.contentType = IF method = "POST"
                                            THEN "application/json;charset=UTF-8"
                                            ELSE ""]
  /\ UNCHANGED <<plot, varsT, varsC>>

\* request.onload: the server answered with a status and a body that is
\* JSON or not.  JSON.parse throws on a body that is not JSON.
OnLoad ==
  /\ http.phase = "sent"
  /\ \E status \in Statuses, json \in BOOLEAN :
       http' = [http EXCEPT
                  !.phase = "completed", !.event = "load", !.status = status, !.json = json,
                  !.uncaught = StatusAccepted(status) /\ ~json,
                  !.successCalls = IF StatusAccepted(status) /\ json /\ http.hasCallback
                                   THEN @ + 1 ELSE @,
                  !.failureCalls = IF ~StatusAccepted(status) /\ http.hasErrorCallback
                                   THEN @ + 1 ELSE @,
                  !.failureArg = IF ~StatusAccepted(status) /\ http.hasErrorCallback
                                 THEN "bad HTTP status:" ELSE @]
  /\ UNCHANGED <<plot, varsT, varsC>>

\* request.onerror: a connection error
OnError ==
  /\ http.phase = "sent"
  /\ http' = [http EXCEPT
                !.phase = "completed", !.event = "error",
                !.failureCalls = IF http.hasErrorCallback THEN @ + 1 ELSE @,
                !.failureArg = IF http.hasErrorCallback THEN "error event" ELSE @]
  /\ UNCHANGED <<plot, varsT, varsC>>

DefaultInterval == preparePlotInterval(MathVariable(<<"x">>), Omitted, Omitted)
ExplicitInterval == preparePlotInterval(MathVariable(<<"y">>), Given(-1), Given(2))

PlotExpressions == {<<Product>>, <<Two, Product>>}

PairsOf(exprs) ==
  [i \in 1..Len(exprs) |->
     [x |-> exprs[i], y |-> Two, z |-> Five, interval |-> DefaultInterval,
      r_u |-> DefaultInterval, r_v |-> ExplicitInterval]]

PlotParams == {NotGiven, Some("line_color")}

\* plot2d, plot3d, plot2d_parametric, plot3d_parametric_line and
\* plot3d_parametric_surface: create the image, install img.onerror when
\* onError is given, set img.src
Plot ==
  /\ plot.phase = "idle"
  /\ \E fn \in PlotFunctions, exprs \in PlotExpressions, svg \in BOOLEAN,
        onError \in BOOLEAN, withInterval \in BOOLEAN, params \in PlotParams :
       LET one == IF withInterval THEN Some(ExplicitInterval) ELSE NotGiven
           two == IF withInterval
                        THEN Some([i1 |-> DefaultInterval, i2 |-> ExplicitInterval])
                        ELSE NotGiven
       IN  plot' = [phase |-> "loading", function |-> fn, hasOnError |-> onError,
                    exprs |-> exprs, svg |-> svg, interval |-> one,
                    intervals |-> two, params |-> params,
                    src |-> ImageSrc(fn, exprs, PairsOf(exprs), svg, one, two, params),
                    check |-> None, delivered |-> <<>>]
  /\ UNCHANGED <<http, varsT, varsC>>

ImageLoads ==
  /\ plot.phase = "loading"
  /\ plot' = [plot EXCEPT !.phase = "loaded"]
  /\ UNCHANGED <<http, varsT, varsC>>

\* the image fails to load: img.onerror runs when it was installed
ImageFails ==
  /\ plot.phase = "loading"
  /\ plot' = IF plot.hasOnError
             THEN [plot EXCEPT !.phase = "checking",
                               !.check = OnErrorCheck(plot.function, plot.exprs,
                                                      PairsOf(plot.exprs), plot.svg,
                                                      plot.interval, plot.intervals,
                                                      plot.params)]
             ELSE [plot EXCEPT !.phase = "failed"]
  /\ UNCHANGED <<http, varsT, varsC>>

\* the validity check succeeds: there is no then-branch, nothing is reported
CheckResolves ==
  /\ plot.phase = "checking"
  /\ plot' = [plot EXCEPT !.phase = "valid"]
  /\ UNCHANGED <<http, varsT, varsC>>

\* the validity check fails with the error of the server: catch calls onError
CheckRejects ==
  /\ plot.phase = "checking"
  /\ plot' = [plot EXCEPT !.phase = "invalid", !.delivered = Append(@, SympyError)]
  /\ UNCHANGED <<http, varsT, varsC>>

NextH ==
  \/ RequestAsync \/ OnLoad \/ OnError
  \/ Plot \/ ImageLoads \/ ImageFails \/ CheckResolves \/ CheckRejects

InitH == IdleT /\ IdleC /\ IdleH

SpecH == InitH /\ [][NextH]_vars

(***************************************************************************)
(* Properties of the transport and plot specification.                     *)
(***************************************************************************)
RequestFailed ==
  /\ http.phase = "completed"
  /\ (http.event = "error" \/ ~StatusAccepted(http.status))

\* C6: with both continuations supplied, a status that is not a success or a
\* connection failure invokes the failure continuation and never the success
\* continuation, and a completed request has invoked exactly one of the two,
\* exactly once.
ExactlyOneContinuation ==
  (http.phase = "completed" /\ http.hasCallback /\ http.hasErrorCallback) =>
     /\ http.successCalls + http.failureCalls = 1
     /\ RequestFailed => (http.failureCalls = 1 /\ http.successCalls = 0)

ImageFailed == plot.phase \in {"failed", "valid", "invalid"}

\* C8 as stated: every failed image load and every failed transport request
\* reaches the caller, whether or not onError or a failure continuation was
\* given.
NoErrorSwallowed ==
  /\ ImageFailed => plot.delivered # <<>>
  /\ RequestFailed => http.failureCalls = 1

\* C8 amended: with onError the failed image load issues one validity check
\* with the function name, argument texts, format flag and options of the
\* image URL, and the error of a failed check is delivered to onError; a
\* check that succeeds reports nothing.  Without onError no check is issued
\* and nothing is reported.  A failed transport request invokes the failure
\* continuation once when one was supplied and nothing otherwise, and never
\* the success continuation.
ErrorsReachGivenHandlers ==
  /\ plot.phase \in {"checking", "valid", "invalid"} =>
       /\ plot.hasOnError
       /\ plot.check = plot.src
       /\ plot.delivered = IF plot.phase = "invalid" THEN <<SympyError>> ELSE <<>>
  /\ plot.phase \in {"loading", "loaded", "failed"} =>
       /\ plot.check = None
       /\ plot.delivered = <<>>
  /\ plot.phase = "failed" => ~plot.hasOnError
  /\ RequestFailed =>
       /\ http.failureCalls = (IF http.hasErrorCallback THEN 1 ELSE 0)
       /\ http.successCalls = 0

ErrorsReachGivenHandlersWitness ==
  /\ plot.phase = "invalid"
  /\ plot.function = "plot3d_parametric_surface"
  /\ plot.check.endpoint = "plot3d_parametric_surface"
  /\ plot.delivered = <<SympyError>>
  /\ http.phase = "completed"
  /\ http.status = 404
  /\ http.hasErrorCallback
  /\ http.failureCalls = 1
====
